---- MODULE Spec2Model ----
(***************************************************************************)
(* Model of build_ios_lib.py: the iOS build driver for jansson and avro.   *)
(*                                                                         *)
(* The script is one sequential process.  Its state is the parsed command  *)
(* line, the position in main / Builder.build / Builder.merge_libs, the    *)
(* process environment, the part of the file system it reads and writes,   *)
(* the external commands it has started (with their exit codes), what it   *)
(* has written to stderr, and the exit status of the process.              *)
(*                                                                         *)
(* Strings are real strings: paths are joined with "/", f-strings are      *)
(* concatenations, glob patterns are matched on the characters.            *)
(* The external tools are opaque: their exit codes, and what a cmake       *)
(* install leaves on disk, are chosen nondeterministically.                *)
(***************************************************************************)
EXTENDS Integers, Sequences, FiniteSets, TLC

VARIABLES
    configuration,      \* args.configuration
    bitcode_enabled,    \* args.bitcode_enabled
    deployment_target,  \* args.deployment_target
    out_dir,            \* args.out_dir, as typed on the command line
    pc,                 \* position in the script
    lib_i,              \* which b.build(...) call of main is running (1, 2)
    plat_i,             \* index in get_platforms() of the loop in progress
    environ,            \* os.environ["PKG_CONFIG_PATH"] ("" when unset)
    dirs,               \* directories that exist
    files,              \* files that exist: [dir, name]
    log,                \* commands handed to check_call, in order: [cmd, cwd]
    retcodes,           \* exit codes of the commands that have returned
    stderr,             \* lines written to sys.stderr
    exit_status         \* exit status of the process (NoExit while running)

vars == <<configuration, bitcode_enabled, deployment_target, out_dir, pc, lib_i,
          plat_i, environ, dirs, files, log, retcodes, stderr, exit_status>>

----------------------------------------------------------------------------
(* Bounds of the model *)

\* exit codes of a child process range over 0..MaxReturnCode
MaxReturnCode == 1
\* how many of PriorNamePool may already lie in an install lib directory
MaxPriorFiles == 2

ReturnCodes == 0..MaxReturnCode

NoExit == -1

----------------------------------------------------------------------------
(* Strings and paths *)

StartsWith(s, p) == Len(s) >= Len(p) /\ SubSeq(s, 1, Len(p)) = p

EndsWith(s, p) == Len(s) >= Len(p) /\ SubSeq(s, Len(s) - Len(p) + 1, Len(s)) = p

\* os.path.join(a, b) on POSIX: an absolute b discards a
join(a, b) ==
    IF StartsWith(b, "/") THEN b
    ELSE IF a = "" \/ EndsWith(a, "/") THEN a \o b
    ELSE a \o "/" \o b

\* the working directory of the process and the directory of the script
CWD == "/repo"
SCRIPT_DIR == "/repo"

\* os.path.abspath(p)
abspath(p) == IF StartsWith(p, "/") THEN p ELSE join(CWD, p)

RECURSIVE Repeat(_, _)
\* s * n
Repeat(s, n) == IF n <= 0 THEN "" ELSE s \o Repeat(s, n - 1)

----------------------------------------------------------------------------
(* Module constants and the small Builder methods *)

IPHONEOS_DEPLOYMENT_TARGET == "13.0"

JANSSON_EXTRA_CMAKE_FLAGS ==
    << "-DJANSSON_WITHOUT_TESTS=ON",
       "-DJANSSON_EXAMPLES=OFF",
       "-DJANSSON_BUILD_DOCS=OFF" >>

get_path_relative_to_script(path) == join(SCRIPT_DIR, path)

get_toolchain == get_path_relative_to_script(join("ios-cmake", "ios.toolchain.cmake"))

\* get_platforms with the two platforms swapped
get_platforms_reversed == << "OS64", "SIMULATOR64" >>

get_platforms == << "SIMULATOR64", "OS64" >>

platform_install_dir(o, platform) == join(o, platform)

platform_lib_file(lib_name, platform) == lib_name \o "_" \o platform \o ".a"

\* the b.build(...) calls of main, in order
MainBuilds ==
    << [root_dir |-> "jansson", lib_name |-> "jansson",
        extra_cmake_flags |-> JANSSON_EXTRA_CMAKE_FLAGS],
       [root_dir |-> join("lang", "c"), lib_name |-> "avro",
        extra_cmake_flags |-> << >>] >>

\* the lib_name of main's b.merge_libs(...) call
MergeLibName == "avro"

\* _build: build_path and the per-platform directories
build_path(o, lib_name) == join(join(o, lib_name), "build")

platform_build_dir(o, lib_name, platform) == join(build_path(o, lib_name), platform)

\* an install directory keyed by library and platform
build_install_dir_per_lib(o, lib_name, platform) == join(join(o, lib_name), platform)

\* _build: platform_install_dir = os.path.join(out_dir, platform)
build_install_dir(o, lib_name, platform) == join(o, platform)

\* a pkg-config directory directly under the install directory
pkg_config_path_flat(install_dir) == join(install_dir, "pkgconfig")

\* build_platform: the value assigned to os.environ["PKG_CONFIG_PATH"]
pkg_config_path(install_dir) == join(join(install_dir, "lib"), "pkgconfig")

----------------------------------------------------------------------------
(* The command lines *)

\* the generate command with the bitcode flag ignored
get_cmake_xcode_generate_command_bitcode_on(platform, install_dir, root_dir, extra_flags) ==
    << "cmake",
       root_dir,
       "-GXcode",
       "-DCMAKE_TOOLCHAIN_FILE=" \o get_toolchain,
       "-DPLATFORM=" \o platform,
       "-DCMAKE_XCODE_ATTRIBUTE_CODE_SIGN_IDENTITY=''",
       "-DCMAKE_XCODE_ATTRIBUTE_DEVELOPMENT_TEAM=''",
       "-DBUILD_SHARED_LIBS=OFF",
       "-DDEPLOYMENT_TARGET=" \o deployment_target,
       "-DENABLE_BITCODE=ON",
       "-DCMAKE_INSTALL_PREFIX=" \o install_dir >> \o extra_flags

get_cmake_xcode_generate_command(platform, install_dir, root_dir, extra_flags) ==
    << "cmake",
       root_dir,
       "-GXcode",
       "-DCMAKE_TOOLCHAIN_FILE=" \o get_toolchain,
       "-DPLATFORM=" \o platform,
       "-DCMAKE_XCODE_ATTRIBUTE_CODE_SIGN_IDENTITY=''",
       "-DCMAKE_XCODE_ATTRIBUTE_DEVELOPMENT_TEAM=''",
       "-DBUILD_SHARED_LIBS=OFF",
       "-DDEPLOYMENT_TARGET=" \o deployment_target,
       "-DENABLE_BITCODE=" \o (IF bitcode_enabled THEN "ON" ELSE "OFF"),
       "-DCMAKE_INSTALL_PREFIX=" \o install_dir >> \o extra_flags

get_cmake_build_command ==
    << "cmake", "--build", ".", "--clean-first",
       "--config", configuration,
       "--target", "install" >>

\* the libtool command with the globbed libraries left out
libtool_command_no_inputs(out_lib_file_path, libs) ==
    << "libtool", "-static", "-o", out_lib_file_path >>

\* merge_libs_in_directory: the argument list handed to execute
libtool_command(out_lib_file_path, libs) ==
    << "libtool", "-static", "-o", out_lib_file_path >> \o libs

\* create_universal_static_lib: lipocmd
lipo_command(out_lib_file_path, libs) ==
    << "lipo", "-create" >> \o libs \o << "-o", out_lib_file_path >>

----------------------------------------------------------------------------
(* The file system *)

\* os.makedirs(path, exist_ok=True)
makedirs(path) == dirs \cup {path}

\* fnmatch of a file name against "*.a"; glob never lets "*" match a leading dot
matches_star_a(name) == EndsWith(name, ".a") /\ ~StartsWith(name, ".")

\* the set of paths glob.glob(os.path.join(directory_path, "*.a")) returns
glob_star_a(directory_path) ==
    IF directory_path \notin dirs THEN {}
    ELSE { join(f.dir, f.name) :
             f \in { g \in files : g.dir = directory_path /\ matches_star_a(g.name) } }

\* the lists glob may return for a set of paths: every order is possible
Orders(S) ==
    { s \in [1..Cardinality(S) -> S] : \A i, j \in 1..Cardinality(S) : s[i] = s[j] => i = j }

----------------------------------------------------------------------------
(* execute, and what is written to stderr *)

\* a line printed with print(fmt % args, file=sys.stderr)
Line(fmt, args) == [fmt |-> fmt, args |-> args]

\* execute: print("Executing: %s in %s" % (cmd, cwd), file=sys.stderr)
ExecutingLine(cmd, cwd) == Line("Executing: %s in %s", << cmd, cwd >>)

\* cwd = None
NoCwd == ""

\* an execute that ignores the exit code
execute_never_raises(retcode) == FALSE

\* execute: check_call raises CalledProcessError on a non-zero exit code (and
\* the test that follows it would raise Exception on one)
execute_raises(retcode) == retcode # 0

CalledProcessError(cmd, retcode) ==
    [type |-> "CalledProcessError", cmd |-> cmd, returncode |-> retcode]

NameError(name) == [type |-> "NameError", name |-> name]

\* Builder.build: the except clause's four writes to stderr
build_except(e) ==
    << Line(Repeat("=", 60), << >>),
       Line("ERROR: %s", << e >>),
       Line(Repeat("=", 60), << >>),
       Line("Traceback (most recent call last):", << e >>) >>

\* an exception that leaves the script uncaught: the interpreter prints the
\* traceback and the process ends with status 1
uncaught(e) == << Line("Traceback (most recent call last):", << e >>) >>

\* the command that is running, if any
Running == Len(retcodes) < Len(log)

CurrentBuild == MainBuilds[lib_i]

CurrentPlatform == get_platforms[plat_i]

----------------------------------------------------------------------------
(* What the external tools may leave on disk *)

\* what "cmake --build . --target install" of a library may install under
\* <prefix>/lib when it exits 0: the tool is opaque to the script
InstallOutcomes(lib_name) == { {}, {"lib" \o lib_name \o ".a"} }

Installed(prefix, names) == { [dir |-> join(prefix, "lib"), name |-> n] : n \in names }

InstalledDirs(prefix, names) ==
    IF names = {} THEN {} ELSE { prefix, join(prefix, "lib"), join(prefix, "include") }

----------------------------------------------------------------------------
(* Initial state: the parsed command line and the disk as found *)

\* --deployment_target: the default, and a value that looks like another flag
DeploymentTargets == { IPHONEOS_DEPLOYMENT_TARGET, "-DPLATFORM=OS64" }

PriorNamePool == << "libold.a", ".hidden.a", "notes.txt", "liba" >>

PriorNames == { PriorNamePool[i] : i \in 1..MaxPriorFiles }

\* the positional out_dir argument: a relative path
OutDirArgs == { "out" }

\* a platform's install lib directory before the run: absent, or present
\* with some earlier files
PriorLibDirs == { [exists |-> FALSE, names |-> {}] }
                \cup { [exists |-> TRUE, names |-> S] : S \in SUBSET PriorNames }

Init ==
    /\ configuration \in { "Debug", "Release" }
    /\ bitcode_enabled \in BOOLEAN
    /\ deployment_target \in DeploymentTargets
    /\ out_dir \in OutDirArgs
    /\ pc = "build"
    /\ lib_i = 1
    /\ plat_i = 1
    /\ environ = ""
    /\ \E prior \in [ {"SIMULATOR64", "OS64"} -> PriorLibDirs ] :
         /\ dirs = UNION { IF prior[p].exists
                             THEN { join(abspath(out_dir), p),
                                    join(join(abspath(out_dir), p), "lib") }
                             ELSE {} : p \in DOMAIN prior }
         /\ files = UNION { { [dir |-> join(join(abspath(out_dir), p), "lib"), name |-> n] :
                                n \in prior[p].names } : p \in DOMAIN prior }
    /\ log = << >>
    /\ retcodes = << >>
    /\ stderr = << >>
    /\ exit_status = NoExit

----------------------------------------------------------------------------
(* main -> Builder.build -> Builder._build *)

\* b.build(out_dir, root_dir, lib_name, flags): _build up to its platform loop
Build ==
    /\ pc = "build"
    /\ dirs' = makedirs(abspath(out_dir))
    /\ plat_i' = 1
    /\ pc' = "platform"
    /\ UNCHANGED << configuration, bitcode_enabled, deployment_target, out_dir, lib_i,
                    environ, files, log, retcodes, stderr, exit_status >>

\* one turn of _build's loop up to build_platform's first execute: the build
\* directory is made, PKG_CONFIG_PATH is set, the generate command is started
BuildPlatform ==
    /\ pc = "platform"
    /\ LET o == abspath(out_dir)
           b == CurrentBuild
           bdir == platform_build_dir(o, b.lib_name, CurrentPlatform)
           idir == build_install_dir(o, b.lib_name, CurrentPlatform)
           cmd == get_cmake_xcode_generate_command(
                      CurrentPlatform, idir,
                      get_path_relative_to_script(b.root_dir), b.extra_cmake_flags)
       IN /\ dirs' = makedirs(bdir)
          /\ environ' = pkg_config_path(idir)
          /\ log' = Append(log, [cmd |-> cmd, cwd |-> bdir])
          /\ stderr' = Append(stderr, ExecutingLine(cmd, bdir))
    /\ pc' = "generate"
    /\ UNCHANGED << configuration, bitcode_enabled, deployment_target, out_dir, lib_i,
                    plat_i, files, retcodes, exit_status >>

\* the generate command exits and execute returns: build_platform starts the
\* build-and-install command in the same directory
GenerateOk ==
    /\ pc = "generate"
    /\ \E rc \in ReturnCodes :
         /\ ~execute_raises(rc)
         /\ retcodes' = Append(retcodes, rc)
    /\ LET cmd == get_cmake_build_command
           bdir == log[Len(log)].cwd
       IN /\ log' = Append(log, [cmd |-> cmd, cwd |-> bdir])
          /\ stderr' = Append(stderr, ExecutingLine(cmd, bdir))
    /\ pc' = "cmake_build"
    /\ UNCHANGED << configuration, bitcode_enabled, deployment_target, out_dir, lib_i,
                    plat_i, environ, dirs, files, exit_status >>

\* the generate command exits and execute raises: Builder.build catches the
\* exception, prints the banner and the traceback, and calls sys.exit(1)
GenerateFail ==
    /\ pc = "generate"
    /\ \E rc \in ReturnCodes :
         /\ execute_raises(rc)
         /\ retcodes' = Append(retcodes, rc)
         /\ stderr' = stderr \o build_except(CalledProcessError(log[Len(log)].cmd, rc))
    /\ pc' = "exited"
    /\ exit_status' = 1
    /\ UNCHANGED << configuration, bitcode_enabled, deployment_target, out_dir, lib_i,
                    plat_i, environ, dirs, files, log >>

\* the build-and-install command exits 0: the loop goes on to the next
\* platform, then build returns to main, which goes on to the next library
\* and then to merge_libs
CmakeBuildOk ==
    /\ pc = "cmake_build"
    /\ \E rc \in ReturnCodes :
         /\ ~execute_raises(rc)
         /\ retcodes' = Append(retcodes, rc)
    /\ \E names \in InstallOutcomes(CurrentBuild.lib_name) :
         LET prefix == build_install_dir(abspath(out_dir), CurrentBuild.lib_name,
                                         CurrentPlatform)
         IN /\ files' = files \cup Installed(prefix, names)
            /\ dirs' = dirs \cup InstalledDirs(prefix, names)
    /\ IF plat_i < Len(get_platforms)
         THEN /\ plat_i' = plat_i + 1
              /\ lib_i' = lib_i
              /\ pc' = "platform"
         ELSE IF lib_i < Len(MainBuilds)
         THEN /\ plat_i' = 1
              /\ lib_i' = lib_i + 1
              /\ pc' = "build"
         ELSE /\ plat_i' = 1
              /\ lib_i' = lib_i
              /\ pc' = "merge_libs"
    /\ UNCHANGED << configuration, bitcode_enabled, deployment_target, out_dir,
                    environ, log, stderr, exit_status >>

\* the build-and-install command exits non-zero: as GenerateFail
CmakeBuildFail ==
    /\ pc = "cmake_build"
    /\ \E rc \in ReturnCodes :
         /\ execute_raises(rc)
         /\ retcodes' = Append(retcodes, rc)
         /\ stderr' = stderr \o build_except(CalledProcessError(log[Len(log)].cmd, rc))
    /\ pc' = "exited"
    /\ exit_status' = 1
    /\ UNCHANGED << configuration, bitcode_enabled, deployment_target, out_dir, lib_i,
                    plat_i, environ, dirs, files, log >>

----------------------------------------------------------------------------
(* main -> Builder.merge_libs *)

platform_libs_path(o) == join(o, "intermediate")

\* merge_libs: platform_merged_lib_file of a platform
platform_merged_lib_file(o, lib_name, platform) ==
    join(platform_libs_path(o), platform_lib_file(lib_name, platform))

\* merge_libs: platform_lib_dir of a platform
platform_lib_dir(o, platform) == join(platform_install_dir(o, platform), "lib")

\* merge_libs: framework_path
framework_path(o, lib_name) == join(o, lib_name \o ".framework")

\* b.merge_libs(out_dir, "avro") up to its platform loop
MergeLibs ==
    /\ pc = "merge_libs"
    /\ dirs' = makedirs(platform_libs_path(abspath(out_dir)))
    /\ plat_i' = 1
    /\ pc' = "merge_platform"
    /\ UNCHANGED << configuration, bitcode_enabled, deployment_target, out_dir, lib_i,
                    environ, files, log, retcodes, stderr, exit_status >>

\* one turn of merge_libs' loop: merge_libs_in_directory globs the platform's
\* lib directory and starts libtool on what it found
MergeLibsInDirectory ==
    /\ pc = "merge_platform"
    /\ LET o == abspath(out_dir)
           out_lib_file_path == platform_merged_lib_file(o, MergeLibName, CurrentPlatform)
       IN \E libs \in Orders(glob_star_a(platform_lib_dir(o, CurrentPlatform))) :
            LET cmd == libtool_command(out_lib_file_path, libs)
            IN /\ log' = Append(log, [cmd |-> cmd, cwd |-> NoCwd])
               /\ stderr' = stderr \o << Line("Merging libraries:\n\t%s", << libs >>),
                                         ExecutingLine(cmd, NoCwd) >>
    /\ pc' = "libtool"
    /\ UNCHANGED << configuration, bitcode_enabled, deployment_target, out_dir, lib_i,
                    plat_i, environ, dirs, files, retcodes, exit_status >>

\* libtool exits 0, having written the archive named after -o: the loop goes
\* on to the next platform, and after the last one to the framework
LibtoolOk ==
    /\ pc = "libtool"
    /\ \E rc \in ReturnCodes :
         /\ ~execute_raises(rc)
         /\ retcodes' = Append(retcodes, rc)
    /\ files' = files \cup { [dir |-> platform_libs_path(abspath(out_dir)),
                             name |-> platform_lib_file(MergeLibName, CurrentPlatform)] }
    /\ IF plat_i < Len(get_platforms)
         THEN /\ plat_i' = plat_i + 1
              /\ pc' = "merge_platform"
         ELSE /\ plat_i' = plat_i
              /\ pc' = "framework"
    /\ UNCHANGED << configuration, bitcode_enabled, deployment_target, out_dir, lib_i,
                    environ, dirs, log, stderr, exit_status >>

\* libtool exits non-zero: execute raises inside merge_libs, which main calls
\* outside any try: the exception is uncaught
LibtoolFail ==
    /\ pc = "libtool"
    /\ \E rc \in ReturnCodes :
         /\ execute_raises(rc)
         /\ retcodes' = Append(retcodes, rc)
         /\ stderr' = stderr \o uncaught(CalledProcessError(log[Len(log)].cmd, rc))
    /\ pc' = "exited"
    /\ exit_status' = 1
    /\ UNCHANGED << configuration, bitcode_enabled, deployment_target, out_dir, lib_i,
                    plat_i, environ, dirs, files, log >>

\* merge_libs after its loop: framework_path and framework_include_path are
\* computed, then os.makedirs(final_lib_path, ...) names a variable that is
\* assigned nowhere: NameError, uncaught.  The lines after it never run.
Framework ==
    /\ pc = "framework"
    /\ stderr' = stderr \o uncaught(NameError("final_lib_path"))
    /\ pc' = "exited"
    /\ exit_status' = 1
    /\ UNCHANGED << configuration, bitcode_enabled, deployment_target, out_dir, lib_i,
                    plat_i, environ, dirs, files, log, retcodes >>

Next ==
    \/ Build
    \/ BuildPlatform
    \/ GenerateOk
    \/ GenerateFail
    \/ CmakeBuildOk
    \/ CmakeBuildFail
    \/ MergeLibs
    \/ MergeLibsInDirectory
    \/ LibtoolOk
    \/ LibtoolFail
    \/ Framework

Spec == Init /\ [][Next]_vars

----------------------------------------------------------------------------
(* Vocabulary of the properties *)

\* the absolute output directory of the run
OutAbs == CWD \o "/" \o out_dir

Platforms == { "SIMULATOR64", "OS64" }

LibNames == { "jansson", "avro" }

IsGenerate(e) == e.cmd[1] = "cmake" /\ e.cmd[3] = "-GXcode"

IsCmakeBuild(e) == e.cmd[1] = "cmake" /\ e.cmd[2] = "--build"

IsLibtool(e) == e.cmd[1] = "libtool"

IsLipo(e) == e.cmd[1] = "lipo"

\* the build directory of a (library, platform) pair
BuildDirOf(l, p) == OutAbs \o "/" \o l \o "/build/" \o p

\* the positions of the arguments of a command that start with a prefix
ArgsWith(cmd, prefix) == { j \in 1..Len(cmd) : StartsWith(cmd[j], prefix) }

\* exactly one argument of the command starts with the prefix, and it is arg
OnlyArgWith(cmd, prefix, arg) ==
    LET at == ArgsWith(cmd, prefix)
    IN Cardinality(at) = 1 /\ \A j \in at : cmd[j] = arg

\* the merged archive of a platform
MergedArchive(p) == OutAbs \o "/intermediate/avro_" \o p \o ".a"

\* the *.a files of a platform's install lib directory, as glob names them
StaticLibsOf(p) ==
    { OutAbs \o "/" \o p \o "/lib/" \o f.name :
        f \in { g \in files : /\ g.dir = OutAbs \o "/" \o p \o "/lib"
                              /\ Len(g.name) >= 2
                              /\ SubSeq(g.name, Len(g.name) - 1, Len(g.name)) = ".a"
                              /\ SubSeq(g.name, 1, 1) # "." } }

Border == "============================================================"

\* the bordered error banner is on stderr
HasBanner ==
    \E k \in 1..(Len(stderr) - 2) :
        /\ stderr[k].fmt = Border
        /\ stderr[k + 1].fmt = "ERROR: %s"
        /\ stderr[k + 2].fmt = Border

AllSucceeded == \A i \in 1..Len(retcodes) : retcodes[i] = 0

\* what a command is, read off its argument list and working directory
Signature(e) ==
    IF IsLibtool(e) THEN << "libtool", e.cmd[4] >>
    ELSE IF IsLipo(e) THEN << "lipo", e.cmd[Len(e.cmd)] >>
    ELSE IF IsGenerate(e) THEN << "generate", e.cwd >>
    ELSE << "build", e.cwd >>

\* the order the claim fixes
CanonicalOrder ==
    << << "generate", BuildDirOf("jansson", "SIMULATOR64") >>,
       << "build",    BuildDirOf("jansson", "SIMULATOR64") >>,
       << "generate", BuildDirOf("jansson", "OS64") >>,
       << "build",    BuildDirOf("jansson", "OS64") >>,
       << "generate", BuildDirOf("avro", "SIMULATOR64") >>,
       << "build",    BuildDirOf("avro", "SIMULATOR64") >>,
       << "generate", BuildDirOf("avro", "OS64") >>,
       << "build",    BuildDirOf("avro", "OS64") >>,
       << "libtool",  MergedArchive("SIMULATOR64") >>,
       << "libtool",  MergedArchive("OS64") >>,
       << "lipo",     OutAbs \o "/avro.framework/avro" >> >>

----------------------------------------------------------------------------
(* The claims *)

\* C1: every external command that exits non-zero ends the process with exit
\* status 1 and with the bordered error banner on stderr.
C1_NonZeroExitBanner ==
    \A i \in 1..Len(retcodes) :
        retcodes[i] # 0 => /\ pc = "exited"
                           /\ exit_status = 1
                           /\ HasBanner

\* C2: a run in which all four generate/build pairs and both libtool merges
\* exit zero, with the install directories in place, goes on to the
\* universal-binary step and ends with exit status 0.
C2_SuccessExitsZero ==
    ( /\ pc = "exited"
      /\ Len(retcodes) = 10
      /\ AllSucceeded
      /\ \A p \in Platforms : OutAbs \o "/" \o p \o "/lib" \in dirs )
    => /\ exit_status = 0
       /\ \E i \in 1..Len(log) : IsLipo(log[i])

\* C3: each merge of a platform's lib directory starts libtool once, with
\* "-o" and one output path followed by exactly the directory's N files that
\* match *.a, whatever N >= 0 is.  (Stated of the command started last: every
\* command is the last one when it is started.)
C3_LibtoolArguments ==
    /\ (Len(log) >= 1 /\ IsLibtool(log[Len(log)])) =>
           LET cmd == log[Len(log)].cmd
           IN \E p \in Platforms :
                /\ SubSeq(cmd, 1, 4) = << "libtool", "-static", "-o", MergedArchive(p) >>
                /\ { j \in 1..Len(cmd) : cmd[j] = "-o" } = {3}
                /\ LET inputs == StaticLibsOf(p)
                   IN /\ { cmd[j] : j \in 5..Len(cmd) } = inputs
                      /\ Len(cmd) = 4 + Cardinality(inputs)
                      /\ MergedArchive(p) \notin inputs
    /\ \A i, j \in 1..Len(log) :
         (IsLibtool(log[i]) /\ IsLibtool(log[j]) /\ log[i].cmd[4] = log[j].cmd[4]) => i = j
    /\ pc = "libtool" =>
         /\ IsLibtool(log[Len(log)])
         /\ log[Len(log)].cmd[4] = MergedArchive(CurrentPlatform)

\* C3 witness: libtool has been started on a lib directory that holds two
\* static libraries and a file the pattern does not match.
C3_Witness ==
    \E i \in 1..Len(log) :
        /\ IsLibtool(log[i])
        /\ log[i].cmd[4] = MergedArchive("OS64")
        /\ Cardinality(StaticLibsOf("OS64")) = 2
        /\ Len(log[i].cmd) = 6
        /\ [dir |-> OutAbs \o "/OS64/lib", name |-> ".hidden.a"] \in files

\* C4: once both per-platform merged archives exist, lipo -create is started
\* with both of them as inputs and the one output <out_dir>/avro.framework/avro.
C4_LipoInvoked ==
    ( /\ pc = "exited"
      /\ Len(retcodes) = 10
      /\ AllSucceeded
      /\ \A p \in Platforms :
           [dir |-> OutAbs \o "/intermediate", name |-> "avro_" \o p \o ".a"] \in files )
    => \E i \in 1..Len(log) :
         LET cmd == log[i].cmd
         IN /\ SubSeq(cmd, 1, 2) = << "lipo", "-create" >>
            /\ \A p \in Platforms : \E j \in 3..(Len(cmd) - 2) : cmd[j] = MergedArchive(p)
            /\ SubSeq(cmd, Len(cmd) - 1, Len(cmd)) = << "-o", OutAbs \o "/avro.framework/avro" >>
            /\ { j \in 1..Len(cmd) : cmd[j] = "-o" } = { Len(cmd) - 1 }

\* C5: the merge of a platform whose install lib directory does not exist
\* raises before any external tool is started: libtool is never started for
\* a missing directory, nor with an empty input list.
C5_MissingDirRaises ==
    \A i \in 1..Len(log) :
        IsLibtool(log[i]) =>
          /\ Len(log[i].cmd) > 4
          /\ \A p \in Platforms :
               log[i].cmd[4] = MergedArchive(p) => OutAbs \o "/" \o p \o "/lib" \in dirs

\* C6: every generate command carries exactly one -DPLATFORM=<its platform>,
\* exactly one -DDEPLOYMENT_TARGET=<the configured target>, exactly one
\* -DENABLE_BITCODE=ON or OFF as configured, and -DCMAKE_INSTALL_PREFIX=<the
\* install directory of its platform>; every build command's --config value
\* is the configured configuration.  (Stated of the command started last.)
C6_CommandSubstitutions ==
    Len(log) >= 1 =>
        LET last == log[Len(log)]
            cmd == last.cmd
        IN /\ IsGenerate(last) =>
                \E l \in LibNames, p \in Platforms :
                  /\ last.cwd = BuildDirOf(l, p)
                  /\ OnlyArgWith(cmd, "-DPLATFORM=", "-DPLATFORM=" \o p)
                  /\ OnlyArgWith(cmd, "-DDEPLOYMENT_TARGET=",
                                 "-DDEPLOYMENT_TARGET=" \o deployment_target)
                  /\ OnlyArgWith(cmd, "-DENABLE_BITCODE=",
                                 IF bitcode_enabled THEN "-DENABLE_BITCODE=ON"
                                                    ELSE "-DENABLE_BITCODE=OFF")
                  /\ OnlyArgWith(cmd, "-DCMAKE_INSTALL_PREFIX=",
                                 "-DCMAKE_INSTALL_PREFIX=" \o OutAbs \o "/" \o p)
           /\ IsCmakeBuild(last) =>
                \E j \in 1..(Len(cmd) - 1) :
                  /\ { k \in 1..Len(cmd) : cmd[k] = "--config" } = {j}
                  /\ cmd[j + 1] = configuration

\* C6 witness: with bitcode enabled, configuration Release and a deployment
\* target that looks like a flag, the generate and build commands of avro
\* for OS64 have been started.
C6_Witness ==
    /\ bitcode_enabled
    /\ configuration = "Release"
    /\ deployment_target = "-DPLATFORM=OS64"
    /\ \E i \in 1..(Len(log) - 1) :
         /\ IsGenerate(log[i]) /\ log[i].cwd = BuildDirOf("avro", "OS64")
         /\ IsCmakeBuild(log[i + 1])

\* C7: the commands are started one after the other in the fixed order
\* jansson/SIMULATOR64, jansson/OS64, avro/SIMULATOR64, avro/OS64 (generate,
\* then build, for each), then libtool for SIMULATOR64, libtool for OS64,
\* then lipo; a command is started only after the one before it returned,
\* and none is started twice.
C7_CommandOrder ==
    /\ LET order == CanonicalOrder
       IN /\ Len(log) <= Len(order)
          /\ \A i \in 1..Len(log) : Signature(log[i]) = order[i]
    /\ Len(retcodes) \in { Len(log) - 1, Len(log) }

\* C7 witness: all eight cmake commands have returned and the second libtool
\* merge has been started.
C7_Witness ==
    /\ Len(log) = 10
    /\ Len(retcodes) = 9
    /\ pc = "libtool"

\* C8: once a command has exited non-zero it is the last command of the run:
\* the process has ended, nothing was started after it, and the directories
\* made before it are still there.
C8_FailStop ==
    \A i \in 1..Len(retcodes) :
        retcodes[i] # 0 =>
          /\ i = Len(log)
          /\ pc = "exited"
          /\ OutAbs \in dirs
          /\ \A k \in 1..Len(log) : (log[k].cwd # NoCwd) => log[k].cwd \in dirs

\* C8 witness: a build-and-install command of the second platform failed
\* after the first platform had been built.
C8_Witness ==
    /\ Len(retcodes) = 4
    /\ retcodes[4] # 0
    /\ pc = "exited"

\* C9: while a cmake command of a platform runs, and from then on until the
\* next platform's turn, PKG_CONFIG_PATH is <out_dir>/<platform>/lib/pkgconfig;
\* it is never cleared, so all through the merge step (and at exit) it holds
\* the value of the last platform built, which is OS64's once all are built.
C9_PkgConfigPath ==
    /\ \A l \in LibNames, p \in Platforms :
         ( /\ Len(log) >= 1
           /\ Len(log) <= 8
           /\ log[Len(log)].cwd = BuildDirOf(l, p) )
         => environ = OutAbs \o "/" \o p \o "/lib/pkgconfig"
    /\ (pc \in { "merge_libs", "merge_platform", "libtool", "framework" } \/ Len(log) > 8)
         => environ = OutAbs \o "/OS64/lib/pkgconfig"
    /\ Len(log) = 0 => environ = ""

\* C9 witness: libtool runs, and a cmake command of SIMULATOR64 had run
\* before it, while PKG_CONFIG_PATH holds OS64's directory.
C9_Witness ==
    /\ pc = "libtool"
    /\ Running
    /\ environ = OutAbs \o "/OS64/lib/pkgconfig"
    /\ log[5].cwd = BuildDirOf("avro", "SIMULATOR64")

\* C10 (as claimed): the install prefix of the generate command of
\* (jansson, P), its eleventh argument, differs from that of (avro, P).
C10_PrefixPerLibrary ==
    \A i, j \in 1..Len(log) :
        \A p \in Platforms :
            ( /\ IsGenerate(log[i]) /\ log[i].cwd = BuildDirOf("jansson", p)
              /\ IsGenerate(log[j]) /\ log[j].cwd = BuildDirOf("avro", p) )
            => log[i].cmd[11] # log[j].cmd[11]

\* C10 (amended): the install directory is keyed by the platform alone: the
\* generate commands of (jansson, P) and (avro, P) both get the prefix
\* <out_dir>/P, which differs from the other platform's, and the inputs of
\* P's libtool merge are all files of <out_dir>/P/lib.  (The prefix is the
\* eleventh argument of a generate command.)
C10_PrefixPerPlatform ==
    /\ \A i \in 1..Len(log) :
         IsGenerate(log[i]) =>
           \E l \in LibNames, p \in Platforms :
             /\ log[i].cwd = BuildDirOf(l, p)
             /\ log[i].cmd[11] = "-DCMAKE_INSTALL_PREFIX=" \o OutAbs \o "/" \o p
    /\ (Len(log) >= 1 /\ IsLibtool(log[Len(log)])) =>
         \A p \in Platforms :
           log[Len(log)].cmd[4] = MergedArchive(p) =>
             \A k \in 5..Len(log[Len(log)].cmd) :
               StartsWith(log[Len(log)].cmd[k], OutAbs \o "/" \o p \o "/lib/")

\* C10 witness: both libraries were generated for SIMULATOR64 and its
\* libtool merge takes the static libraries that both of them installed.
C10_Witness ==
    /\ Len(log) >= 9
    /\ IsGenerate(log[1]) /\ IsGenerate(log[5])
    /\ IsLibtool(log[9])
    /\ \E j, k \in 5..Len(log[9].cmd) :
         /\ log[9].cmd[j] = OutAbs \o "/SIMULATOR64/lib/libjansson.a"
         /\ log[9].cmd[k] = OutAbs \o "/SIMULATOR64/lib/libavro.a"

====
